---------------------------- MODULE Spec2Model ----------------------------
(***************************************************************************)
(* Model of TransportExceptionnelAlgorithm (QGIS processing algorithm):    *)
(* path densification, curvature, dynamic half-width, raster sampling,     *)
(* clearance evaluation and the output stages of processAlgorithm.         *)
(*                                                                         *)
(* Numbers.  Every length (coordinates, distances, heights, widths,        *)
(* radii) is an integer number of decimetres, so 2.5 m is 25.  Float       *)
(* division is RoundDiv (nearest), math.sqrt is Sqrt (nearest integer),    *)
(* int() is Trunc (towards zero) and math.ceil of a quotient is CeilDiv.   *)
(* np.nan, np.inf and None are the distinguished integers NaN, Inf and     *)
(* NoneVal, which no computed length takes.                                *)
(***************************************************************************)
EXTENDS Integers, Sequences, FiniteSets, TLC

NaN == -2000000001
Inf == 2000000000
NoneVal == -2000000002

(***************************************************************************)
(* Arithmetic                                                              *)
(***************************************************************************)
Abs(a) == IF a < 0 THEN -a ELSE a

Sign(a) == IF a < 0 THEN -1 ELSE IF a > 0 THEN 1 ELSE 0

\* int(a / b): the quotient truncated towards zero (b # 0)
Trunc(a, b) == Sign(a) * Sign(b) * (Abs(a) \div Abs(b))

\* a / b in floating point, kept to the nearest decimetre (b # 0)
RoundDiv(a, b) == Sign(a) * Sign(b) * ((2 * Abs(a) + Abs(b)) \div (2 * Abs(b)))

\* int(math.ceil(a / b)) for a >= 0 and b # 0
CeilDiv(a, b) == IF b > 0 THEN (a + b - 1) \div b ELSE -(a \div (-b))

RECURSIVE SqrtSearch(_, _, _)
SqrtSearch(n, lo, hi) ==
    IF lo >= hi THEN lo
    ELSE LET mid == (lo + hi + 1) \div 2
         IN  IF mid * mid <= n THEN SqrtSearch(n, mid, hi)
             ELSE SqrtSearch(n, lo, mid - 1)

\* floor of the square root of n, 0 <= n < 2^31
FloorSqrt(n) == SqrtSearch(n, 0, 46340)

\* math.sqrt(n) to the nearest integer
Sqrt(n) == LET r == FloorSqrt(n) IN IF n - r * r > r THEN r + 1 ELSE r

RECURSIVE FracStep(_, _, _, _)
FracStep(q, r, b, d) ==
    IF d = 0 THEN q
    ELSE FracStep(10 * q + (10 * r) \div b, (10 * r) % b, b, d - 1)

\* floor(a * 10^d / b) by long division, for a >= 0 and b > 0
FracDiv(a, b, d) == FracStep(a \div b, a % b, b, d)

Max2(a, b) == IF a >= b THEN a ELSE b

Min2(a, b) == IF a <= b THEN a ELSE b

RECURSIVE SeqMax(_)
SeqMax(s) == IF Len(s) = 1 THEN s[1] ELSE Max2(s[1], SeqMax(Tail(s)))

RECURSIVE SeqSum(_)
SeqSum(s) == IF s = <<>> THEN 0 ELSE s[1] + SeqSum(Tail(s))

(***************************************************************************)
(* Points and paths                                                        *)
(***************************************************************************)
QgsPointXY(px, py) == [x |-> px, y |-> py]

\* math.sqrt((p2.x() - p1.x())**2 + (p2.y() - p1.y())**2)
Distance(p1, p2) == Sqrt((p2.x - p1.x) * (p2.x - p1.x) + (p2.y - p1.y) * (p2.y - p1.y))

(***************************************************************************)
(* densify_line.  The result is [ok, stations, distances]; ok = FALSE is   *)
(* the exception Python raises (IndexError on points[0] of an empty path,  *)
(* ZeroDivisionError on segment_length / 0.0).                             *)
(***************************************************************************)
\* the floor instead of the ceiling: a subdivision C8 rejects
NumSegmentsFloor(segment_length, sp) == segment_length \div sp

\* at least one sub-segment, also for a segment of length 0: a subdivision
\* C9 rejects
NumSegmentsAtLeastOne(segment_length, sp) == Max2(1, CeilDiv(segment_length, sp))

\* int(math.ceil(segment_length / spacing))
NumSegments(segment_length, sp) == CeilDiv(segment_length, sp)

RECURSIVE DensifySegment(_, _, _, _, _, _)
\* for j in range(1, num_segments + 1): one station and one distance per j
DensifySegment(p1, p2, segment_length, num_segments, j, acc) ==
    IF j > num_segments THEN acc
    ELSE LET x == p1.x + RoundDiv(j * (p2.x - p1.x), num_segments)
             y == p1.y + RoundDiv(j * (p2.y - p1.y), num_segments)
             cumul_dist == acc.cumul_dist + RoundDiv(segment_length, num_segments)
         IN  DensifySegment(p1, p2, segment_length, num_segments, j + 1,
                            [stations   |-> Append(acc.stations, QgsPointXY(x, y)),
                             distances  |-> Append(acc.distances, cumul_dist),
                             cumul_dist |-> cumul_dist])

RECURSIVE DensifyLoop(_, _, _, _)
\* for i in range(len(points) - 1)
DensifyLoop(pts, sp, i, acc) ==
    IF i > Len(pts) - 1 THEN [ok |-> TRUE, stations |-> acc.stations,
                              distances |-> acc.distances]
    ELSE LET p1 == pts[i]
             p2 == pts[i + 1]
             segment_length == Distance(p1, p2)
         IN  IF sp = 0
             THEN [ok |-> FALSE, stations |-> <<>>, distances |-> <<>>]
             ELSE DensifyLoop(pts, sp, i + 1,
                              DensifySegment(p1, p2, segment_length,
                                             NumSegments(segment_length, sp), 1, acc))

\* stations = [points[0]], distances = [0.0], cumul_dist = 0.0
DensifyStart(pts) == [stations |-> <<pts[1]>>, distances |-> <<0>>, cumul_dist |-> 0]

densify_line(pts, sp) ==
    IF Len(pts) = 0
    THEN [ok |-> FALSE, stations |-> <<>>, distances |-> <<>>]
    ELSE DensifyLoop(pts, sp, 1, DensifyStart(pts))

(***************************************************************************)
(* calculate_curve_radius.  idx is 0-based as in the code; stations[idx]   *)
(* of the code is stations[idx + 1] here.                                  *)
(*                                                                         *)
(* The code takes angle = arccos(clip(dot / (nb * na), -1, 1)) and returns *)
(* chord / (2 sin(angle / 2)).  With c = 1 - cos(angle), the test          *)
(* angle < 0.009 is c < 1 - cos(0.009) and 2 sin(angle / 2) is sqrt(2 c).  *)
(* OneMinusCos is c in units of 10^-8, computed from the cross product     *)
(* when the angle is acute (1 - cos = sin^2 / (1 + cos)), so that a        *)
(* straight line gives exactly 0, and from the dot product otherwise.      *)
(***************************************************************************)
window == 3

\* 1 - cos(0.009) = 4.05e-5, in units of 10^-8
AngleMin == 4050

\* clip(..., -1, 1): 1 - cos stays within [0, 2]
Clip(c) == Min2(200000000, Max2(0, c))

OneMinusCos(v_before, v_after, norm_before, norm_after) ==
    LET dot   == v_before.x * v_after.x + v_before.y * v_after.y
        cross == Abs(v_before.x * v_after.y - v_before.y * v_after.x)
        n     == norm_before * norm_after
    IN  IF dot > 0
        THEN Clip(FracDiv(cross, n, 4) * FracDiv(cross, n + dot, 4))
        ELSE Clip(100000000 + 10000 * FracDiv(-dot, n, 4))

calculate_curve_radius(stations, idx) ==
    IF idx = 0 \/ idx >= Len(stations) - 1 THEN Inf
    ELSE LET i_before == Max2(0, idx - window)
             i_after  == Min2(Len(stations) - 1, idx + window)
             v_before == [x |-> stations[idx + 1].x - stations[i_before + 1].x,
                          y |-> stations[idx + 1].y - stations[i_before + 1].y]
             v_after  == [x |-> stations[i_after + 1].x - stations[idx + 1].x,
                          y |-> stations[i_after + 1].y - stations[idx + 1].y]
             norm_before == Sqrt(v_before.x * v_before.x + v_before.y * v_before.y)
             norm_after  == Sqrt(v_after.x * v_after.x + v_after.y * v_after.y)
         IN  IF norm_before = 0 \/ norm_after = 0 THEN Inf
             ELSE LET c == OneMinusCos(v_before, v_after, norm_before, norm_after)
                      chord_length == Distance(stations[i_before + 1], stations[i_after + 1])
                  IN  IF c < AngleMin THEN Inf
                      ELSE RoundDiv(chord_length * 10000, Sqrt(2 * c))

(***************************************************************************)
(* get_dynamic_half_width: <<half width, radius>>                          *)
(***************************************************************************)
RadiusStraight == 5000

RadiusTight == 100

\* the straight case taken from 500 m on instead of above 500 m: a sweep
\* C10 rejects
LateralSweepFromStraight(radius, convoy_length) ==
    IF radius = Inf \/ radius >= RadiusStraight THEN 0
    ELSE IF radius < RadiusTight THEN RoundDiv(convoy_length, 2)
    ELSE RoundDiv(convoy_length * convoy_length, 2 * radius)

\* lines 541-546: the sweep added to base_width / 2
LateralSweep(radius, convoy_length) ==
    IF radius = Inf \/ radius > RadiusStraight THEN 0
    ELSE IF radius < RadiusTight THEN RoundDiv(convoy_length, 2)
    ELSE RoundDiv(convoy_length * convoy_length, 2 * radius)

get_dynamic_half_width(idx, stations, base_width, convoy_length) ==
    LET radius == calculate_curve_radius(stations, idx)
    IN  <<RoundDiv(base_width, 2) + LateralSweep(radius, convoy_length), radius>>

(***************************************************************************)
(* sample_raster.  A dataset ds is [gt0, gt1, gt3, gt5, RasterXSize,       *)
(* RasterYSize, nodata, band], band[py][px] the cell values.               *)
(***************************************************************************)
HeightMin == -1000

HeightMax == 2000

\* the range test made exclusive of -100 and 200: a sampling C20 rejects
SampleOneExclusive(ds, x, y) ==
    LET px == Trunc(x - ds.gt0, ds.gt1)
        py == Trunc(y - ds.gt3, ds.gt5)
    IN  IF 0 <= px /\ px < ds.RasterXSize /\ 0 <= py /\ py < ds.RasterYSize
        THEN LET val == ds.band[py][px]
             IN  IF ds.nodata # NoneVal /\ val = ds.nodata THEN NaN
                 ELSE IF val <= HeightMin \/ val >= HeightMax THEN NaN
                 ELSE val
        ELSE NaN

\* lines 555-567: one pass of the loop over zip(xs, ys)
SampleOne(ds, x, y) ==
    LET px == Trunc(x - ds.gt0, ds.gt1)
        py == Trunc(y - ds.gt3, ds.gt5)
    IN  IF 0 <= px /\ px < ds.RasterXSize /\ 0 <= py /\ py < ds.RasterYSize
        THEN LET val == ds.band[py][px]
             IN  IF ds.nodata # NoneVal /\ val = ds.nodata THEN NaN
                 ELSE IF val < HeightMin \/ val > HeightMax THEN NaN
                 ELSE val
        ELSE NaN

sample_raster(ds, xs, ys) == [k \in 1..Len(xs) |-> SampleOne(ds, xs[k], ys[k])]

(***************************************************************************)
(* The body of the per-station loop of processAlgorithm                    *)
(***************************************************************************)
blade_types == <<"N117", "N131", "N149", "E82">>

TURBINE_SPECS ==
    [N117 |-> [Width |-> 50, blade_length |-> 600],
     N131 |-> [Width |-> 50, blade_length |-> 650],
     N149 |-> [Width |-> 50, blade_length |-> 750],
     E82  |-> [Width |-> 50, blade_length |-> 450]]

\* specs['blade_length'] + 18.0 / 2
ConvoyLength(specs) == specs.blade_length + 90

\* np.linspace(-w, w, n)
Linspace(w, n) ==
    IF n = 1 THEN <<-w>>
    ELSE [k \in 1..n |-> -w + RoundDiv((k - 1) * 2 * w, n - 1)]

\* direction: forward difference, backward difference at the last station
\* (stations_xy[idx - 1] with idx = 0 is Python's stations_xy[-1])
Direction(stations, idx) ==
    LET station == stations[idx + 1]
    IN  IF idx < Len(stations) - 1
        THEN [x |-> stations[idx + 2].x - station.x,
              y |-> stations[idx + 2].y - station.y]
        ELSE LET prev == IF idx = 0 THEN stations[Len(stations)] ELSE stations[idx]
             IN  [x |-> station.x - prev.x, y |-> station.y - prev.y]

\* station + samples * normal, normal = (-direction.y, direction.x) / norm
SampleXs(station, direction, samples) ==
    LET norm == Sqrt(direction.x * direction.x + direction.y * direction.y)
    IN  [k \in 1..Len(samples) |->
            station.x + (IF norm > 0 THEN RoundDiv(samples[k] * (-direction.y), norm)
                         ELSE samples[k] * (-direction.y))]

SampleYs(station, direction, samples) ==
    LET norm == Sqrt(direction.x * direction.x + direction.y * direction.y)
    IN  [k \in 1..Len(samples) |->
            station.y + (IF norm > 0 THEN RoundDiv(samples[k] * direction.x, norm)
                         ELSE samples[k] * direction.x)]

\* heights[~np.isnan(heights)]
ValidHeights(hs) == SelectSeq(hs, LAMBDA h : h # NaN)

\* the comparison made non-strict: a verdict C4 rejects
ClearanceLoose(max_h, required) == max_h <= required

\* the comparison reversed: a verdict C2 rejects
ClearanceReversed(max_h, required) == max_h > required

\* clearance_ok = max_h < height_required
Clearance(max_h, required) == max_h < required

\* a station without a defined sample taken as blocked: a verdict C14 rejects
EvaluateUndefinedBlocked(hs, required) ==
    LET valid_heights == ValidHeights(hs)
    IN  IF Len(valid_heights) > 0
        THEN [max_h  |-> SeqMax(valid_heights),
              mean_h |-> RoundDiv(SeqSum(valid_heights), Len(valid_heights)),
              clearance_ok |-> Clearance(SeqMax(valid_heights), required)]
        ELSE [max_h |-> NaN, mean_h |-> NaN, clearance_ok |-> FALSE]

\* max_h, mean_h, clearance_ok of one station
Evaluate(hs, required) ==
    LET valid_heights == ValidHeights(hs)
    IN  IF Len(valid_heights) > 0
        THEN [max_h  |-> SeqMax(valid_heights),
              mean_h |-> RoundDiv(SeqSum(valid_heights), Len(valid_heights)),
              clearance_ok |-> Clearance(SeqMax(valid_heights), required)]
        ELSE [max_h |-> NaN, mean_h |-> NaN, clearance_ok |-> TRUE]

\* the difference reversed: an exceedance C3 rejects
ExceedanceReversed(max_h, required) == required - max_h

\* max_h - height_required
Exceedance(max_h, required) == max_h - required

\* lines 319-343: the record appended to results and the records (none or
\* one) appended to conflicts
Assemble(station, dist, idx, specs, required, hw, sxs, sys, hs, ev) ==
    [xs |-> sxs, ys |-> sys, heights |-> hs,
     result |-> [station |-> idx,
                 distance_m |-> dist,
                 x |-> station.x,
                 y |-> station.y,
                 max_height_m |-> ev.max_h,
                 mean_height_m |-> ev.mean_h,
                 clearance_ok |-> ev.clearance_ok,
                 curve_radius_m |-> IF hw[2] # Inf THEN hw[2] ELSE -10,
                 dynamic_half_width_m |-> hw[1],
                 lateral_sweep_m |-> hw[1] - RoundDiv(specs.Width, 2)],
     conflicts |-> IF ~ev.clearance_ok /\ ev.max_h # NaN
                   THEN <<[station |-> idx,
                           distance_m |-> dist,
                           x |-> station.x,
                           y |-> station.y,
                           max_height_m |-> ev.max_h,
                           exceedance_m |-> Exceedance(ev.max_h, required),
                           dynamic_half_width_m |-> hw[1]]>>
                   ELSE <<>>]

\* the stations numbered from 1: a table C18 rejects
ReadHeightsFromOne(station, dist, idx, specs, required, ds, hw, sxs, sys, hs) ==
    Assemble(station, dist, idx + 1, specs, required, hw, sxs, sys, hs,
             Evaluate(hs, required))

\* lines 305-317: the heights are read and reduced
ReadHeights(station, dist, idx, specs, required, ds, hw, sxs, sys, hs) ==
    Assemble(station, dist, idx, specs, required, hw, sxs, sys, hs,
             Evaluate(hs, required))

\* lines 282-306: the transversal and its sample coordinates
Transversal(station, dist, idx, specs, required, ds, hw, direction, samples) ==
    ReadHeights(station, dist, idx, specs, required, ds, hw,
                SampleXs(station, direction, samples),
                SampleYs(station, direction, samples),
                sample_raster(ds, SampleXs(station, direction, samples),
                                  SampleYs(station, direction, samples)))

\* lines 276-301, hw = <<dynamic_half_width, radius>>
WithHalfWidth(stations, dists, idx, specs, required, n_samples, ds, hw) ==
    Transversal(stations[idx + 1], dists[idx + 1], idx, specs, required, ds, hw,
                Direction(stations, idx), Linspace(hw[1], n_samples))

\* one iteration of the loop (lines 276-343): [xs, ys, heights, result, conflicts]
ProcessStation(stations, dists, idx, specs, required, n_samples, ds) ==
    WithHalfWidth(stations, dists, idx, specs, required, n_samples, ds,
                  get_dynamic_half_width(idx, stations, specs.Width,
                                         ConvoyLength(specs)))

(***************************************************************************)
(* create_dynamic_envelope.  shapely says whether the import succeeds,     *)
(* union_ok whether the geometry calls of the try block succeed.  The      *)
(* polygon is kept as what determines it: the disks unioned, or the        *)
(* polyline and the buffer width of the fallback.  kind = "raise" is an    *)
(* exception leaving the function.                                         *)
(***************************************************************************)
UnionStride == 200

Fallback(stations, results) ==
    IF Len(results) = 0 THEN [kind |-> "raise"]
    ELSE [kind |-> "buffer", line |-> stations,
          max_width |-> SeqMax([k \in 1..Len(results) |-> results[k].dynamic_half_width_m])]

create_dynamic_envelope(stations, results, shapely, union_ok) ==
    LET step == Max2(1, Len(stations) \div UnionStride)
        used == {i \in 0..(Len(stations) - 1) : i % step = 0}
    IN  IF ~shapely THEN Fallback(stations, results)
        ELSE IF \E i \in used : i >= Len(results) THEN Fallback(stations, results)
        ELSE IF used = {} THEN [kind |-> "none"]
        ELSE IF ~union_ok THEN Fallback(stations, results)
        ELSE [kind |-> "union",
              disks |-> {[x |-> stations[i + 1].x, y |-> stations[i + 1].y,
                          radius |-> results[i + 1].dynamic_half_width_m] : i \in used}]

(***************************************************************************)
(* Inputs of a run                                                         *)
(***************************************************************************)
MaxPoints == 3

\* vertices: a 30 m x 40 m right triangle (sides 30, 40, 50) and a point
\* that bends the path by about one degree
PathPoints ==
    {QgsPointXY(0, 0), QgsPointXY(300, 0), QgsPointXY(300, 400), QgsPointXY(630, 5)}

RECURSIVE PathsOfLen(_)
PathsOfLen(n) ==
    IF n = 0 THEN {<<>>}
    ELSE {Append(q, v) : q \in PathsOfLen(n - 1), v \in PathPoints}

Paths == UNION {PathsOfLen(n) : n \in 0..MaxPoints}

\* TRANSECT_SPACING: 10 m, 25 m, and the values the declared minimum excludes
Spacings == {-100, 0, 100, 250}

\* HEIGHT_REQUIRED
HeightsRequired == {0, 50}

\* SAMPLE_POINTS
SamplePoints == {3}

BladeTypeIdx == {0, 3}

\* cell values of the first raster, by (3 px + 5 py) mod 7: heights of 0,
\* 3, 5 and 10 m, the no-data sentinel, and values beyond the plausible range
CellValues == <<0, 50, 100, -9999, 2500, 30, -1500>>

\* a 5 m grid over x in [30 m, 70 m), y in (-5 m, 35 m], no-data declared
MnhEdge ==
    [gt0 |-> 300, gt1 |-> 50, gt3 |-> 350, gt5 |-> -50,
     RasterXSize |-> 8, RasterYSize |-> 8, nodata |-> -9999,
     band |-> [py \in 0..7 |-> [px \in 0..7 |-> CellValues[((3 * px + 5 * py) % 7) + 1]]]]

\* a 10 m grid over x in [-10 m, 70 m), y in (-30 m, 50 m], flat at 0 with
\* one 10 m cell, no no-data value declared
MnhFlat ==
    [gt0 |-> -100, gt1 |-> 100, gt3 |-> 500, gt5 |-> -100,
     RasterXSize |-> 8, RasterYSize |-> 8, nodata |-> NoneVal,
     band |-> [py \in 0..7 |-> [px \in 0..7 |-> IF px = 4 /\ py = 3 THEN 100 ELSE 0]]]

\* a 10 m grid over x in [-5 m, 115 m), y in (-15 m, 5 m], 0 everywhere
MnhClear ==
    [gt0 |-> -50, gt1 |-> 100, gt3 |-> 50, gt5 |-> -100,
     RasterXSize |-> 12, RasterYSize |-> 2, nodata |-> -9999,
     band |-> [py \in 0..1 |-> [px \in 0..11 |-> 0]]]

\* the same grid with the cell over x in [45 m, 55 m), y in (-5 m, 5 m]
\* at 10 m
MnhObstacle ==
    [gt0 |-> -50, gt1 |-> 100, gt3 |-> 50, gt5 |-> -100,
     RasterXSize |-> 12, RasterYSize |-> 2, nodata |-> -9999,
     band |-> [py \in 0..1 |-> [px \in 0..11 |-> IF px = 5 /\ py = 0 THEN 100 ELSE 0]]]

\* cell values at and next to the limits -100 m and 200 m
BoundValues == <<-1000, 2000, -1001, 2001, -9999, 0, 1999, -999>>

\* one row of eight 10 m cells over x in [0 m, 80 m), y in (-10 m, 0 m],
\* with the no-data value nd (NoneVal when none is declared)
MnhBounds(nd) ==
    [gt0 |-> 0, gt1 |-> 100, gt3 |-> 0, gt5 |-> -100,
     RasterXSize |-> 8, RasterYSize |-> 1, nodata |-> nd,
     band |-> [py \in 0..0 |-> [px \in 0..7 |-> BoundValues[px + 1]]]]

\* the raster files a run can be given; mnh and ds are indexes into it
RasterFiles == <<MnhEdge, MnhFlat, MnhClear, MnhObstacle,
                 MnhBounds(-9999), MnhBounds(0), MnhBounds(NoneVal)>>

(***************************************************************************)
(* processAlgorithm as a state machine                                     *)
(***************************************************************************)
VARIABLES
    pc,               \* the stage the run is at
    points,           \* the polyline of the trace layer's first feature
    spacing, height_required, sample_points, blade_type_idx,
    mnh,              \* the raster file behind mnh_layer.source()
    stations_xy, stations_dist,
    ds,               \* the open gdal dataset, NoneVal when there is none
    gdal_log,         \* "open", "read", "close" in the order they happened
    idx,              \* index of the next station of the loop
    cancelled_at,     \* the idx at which isCanceled() returned True
    xs, ys, heights,  \* sample coordinates and heights of the last station
    results, conflicts,
    progress,         \* the values passed to feedback.setProgress
    envelope,         \* what create_dynamic_envelope returned
    outputs,          \* the stages that wrote their output
    error             \* the exception that ended the run, "" when none

vars == <<pc, points, spacing, height_required, sample_points, blade_type_idx, mnh,
          stations_xy, stations_dist, ds, gdal_log, idx, cancelled_at, xs, ys,
          heights, results, conflicts, progress, envelope, outputs, error>>

inputs == <<points, spacing, height_required, sample_points, blade_type_idx, mnh>>

specs == TURBINE_SPECS[blade_types[blade_type_idx + 1]]

Init ==
    /\ pc = "validate"
    /\ points \in Paths
    /\ spacing \in Spacings
    /\ height_required \in HeightsRequired
    /\ sample_points \in SamplePoints
    /\ blade_type_idx \in BladeTypeIdx
    /\ mnh \in {1, 2}
    /\ stations_xy = <<>>
    /\ stations_dist = <<>>
    /\ ds = NoneVal
    /\ gdal_log = <<>>
    /\ idx = 0
    /\ cancelled_at = NoneVal
    /\ xs = <<>>
    /\ ys = <<>>
    /\ heights = <<>>
    /\ results = <<>>
    /\ conflicts = <<>>
    /\ progress = <<>>
    /\ envelope = [kind |-> "unset"]
    /\ outputs = {}
    /\ error = ""

Raise(e) ==
    /\ pc' = "error"
    /\ error' = e

\* lines 212-247: the layers and the geometry type are checked
Validate ==
    /\ pc = "validate"
    /\ \E trace_ok, mnh_ok, line_ok \in BOOLEAN :
          IF ~trace_ok THEN Raise("Couche de trace invalide")
          ELSE IF ~mnh_ok THEN Raise("Raster MNH invalide")
          ELSE IF ~line_ok THEN Raise("La couche doit etre de type LineString")
          ELSE pc' = "densify" /\ error' = error
    /\ UNCHANGED <<inputs, stations_xy, stations_dist, ds, gdal_log, idx, cancelled_at,
                   xs, ys, heights, results, conflicts, progress, envelope, outputs>>

\* lines 250-253
Densify ==
    /\ pc = "densify"
    /\ progress' = Append(progress, 10)
    /\ LET d == densify_line(points, spacing)
       IN  IF d.ok
           THEN /\ stations_xy' = d.stations
                /\ stations_dist' = d.distances
                /\ pc' = "open"
                /\ error' = error
           ELSE /\ Raise(IF Len(points) = 0 THEN "IndexError: list index out of range"
                         ELSE "ZeroDivisionError: float division by zero")
                /\ UNCHANGED <<stations_xy, stations_dist>>
    /\ UNCHANGED <<inputs, ds, gdal_log, idx, cancelled_at, xs, ys, heights, results,
                   conflicts, envelope, outputs>>

\* lines 255-270
OpenRaster ==
    /\ pc = "open"
    /\ \E opened \in BOOLEAN :
          IF opened
          THEN /\ ds' = mnh
               /\ gdal_log' = Append(gdal_log, "open")
               /\ progress' = progress \o <<20, 30>>
               /\ pc' = "loop"
               /\ error' = error
          ELSE /\ Raise("Impossible d'ouvrir le raster MNH")
               /\ progress' = Append(progress, 20)
               /\ UNCHANGED <<ds, gdal_log>>
    /\ UNCHANGED <<inputs, stations_xy, stations_dist, idx, cancelled_at, xs, ys,
                   heights, results, conflicts, envelope, outputs>>

\* lines 272-345: one iteration of the loop; isCanceled() is read first
Station ==
    /\ pc = "loop"
    /\ idx < Len(stations_xy)
    /\ \E cancelled \in BOOLEAN :
          IF cancelled
          THEN /\ cancelled_at' = idx
               /\ pc' = "close"
               /\ UNCHANGED <<idx, xs, ys, heights, results, conflicts, progress, gdal_log>>
          ELSE \E r \in {ProcessStation(stations_xy, stations_dist, idx, specs,
                                        height_required, sample_points,
                                        RasterFiles[ds])} :
                   /\ xs' = r.xs
                   /\ ys' = r.ys
                   /\ heights' = r.heights
                   /\ gdal_log' = Append(gdal_log, "read")
                   /\ results' = Append(results, r.result)
                   /\ conflicts' = conflicts \o r.conflicts
                   /\ progress' = Append(progress,
                                         30 + Trunc(50 * idx, Len(stations_xy)))
                   /\ idx' = idx + 1
                   /\ pc' = IF idx + 1 = Len(stations_xy) THEN "close" ELSE "loop"
                   /\ UNCHANGED cancelled_at
    /\ UNCHANGED <<inputs, stations_xy, stations_dist, ds, envelope, outputs, error>>

\* the loop left without releasing the dataset: a run C13 rejects
CloseRasterKeepOpen ==
    /\ pc = "close"
    /\ progress' = Append(progress, 80)
    /\ pc' = "envelope"
    /\ UNCHANGED <<inputs, stations_xy, stations_dist, ds, gdal_log, idx, cancelled_at,
                   xs, ys, heights, results, conflicts, envelope, outputs, error>>

\* lines 347-350
CloseRaster ==
    /\ pc = "close"
    /\ ds' = NoneVal
    /\ gdal_log' = Append(gdal_log, "close")
    /\ progress' = Append(progress, 80)
    /\ pc' = "envelope"
    /\ UNCHANGED <<inputs, stations_xy, stations_dist, idx, cancelled_at, xs, ys,
                   heights, results, conflicts, envelope, outputs, error>>

\* lines 353-383
Envelope ==
    /\ pc = "envelope"
    /\ \E sink_ok, shapely, union_ok \in BOOLEAN :
          IF ~sink_ok
          THEN /\ Raise("Impossible de creer la couche enveloppe")
               /\ UNCHANGED <<envelope, outputs>>
          ELSE LET e == create_dynamic_envelope(stations_xy, results, shapely, union_ok)
               IN  IF e.kind = "raise"
                   THEN /\ Raise("ValueError: max() arg is an empty sequence")
                        /\ UNCHANGED <<envelope, outputs>>
                   ELSE /\ envelope' = e
                        /\ outputs' = IF e.kind = "none" THEN outputs
                                      ELSE outputs \cup {"envelope"}
                        /\ pc' = "layers"
                        /\ error' = error
    /\ UNCHANGED <<inputs, stations_xy, stations_dist, ds, gdal_log, idx, cancelled_at,
                   xs, ys, heights, results, conflicts, progress>>

\* lines 385-443: the stations layer, and the obstacles layer when there
\* are conflicts
Layers ==
    /\ pc = "layers"
    /\ \E sink_ok \in BOOLEAN :
          IF ~sink_ok
          THEN /\ Raise("Impossible de creer la couche stations")
               /\ UNCHANGED outputs
          ELSE /\ outputs' = outputs \cup {"stations"}
                                \cup (IF Len(conflicts) > 0 THEN {"obstacles"} ELSE {})
               /\ pc' = "export"
               /\ error' = error
    /\ UNCHANGED <<inputs, stations_xy, stations_dist, ds, gdal_log, idx, cancelled_at,
                   xs, ys, heights, results, conflicts, progress, envelope>>

\* lines 445-471: export_csv reads results[0], export_report takes max()
\* over results
Export ==
    /\ pc = "export"
    /\ IF Len(results) = 0
       THEN /\ Raise("IndexError: list index out of range")
            /\ progress' = Append(progress, 90)
            /\ UNCHANGED outputs
       ELSE /\ outputs' = outputs \cup {"csv", "report"}
            /\ progress' = progress \o <<90, 100>>
            /\ pc' = "done"
            /\ error' = error
    /\ UNCHANGED <<inputs, stations_xy, stations_dist, ds, gdal_log, idx, cancelled_at,
                   xs, ys, heights, results, conflicts, envelope>>

Next ==
    \/ Validate
    \/ Densify
    \/ OpenRaster
    \/ Station
    \/ CloseRaster
    \/ Envelope
    \/ Layers
    \/ Export

Spec == Init /\ [][Next]_vars

(***************************************************************************)
(* The runs on the straight path of 100 m with a spacing of 10 m and a     *)
(* required height of 5 m, over the clear raster and over the raster with  *)
(* one obstacle cell, for every blade type.                                *)
(***************************************************************************)
InitStraight ==
    /\ pc = "validate"
    /\ points = <<QgsPointXY(0, 0), QgsPointXY(1000, 0)>>
    /\ spacing = 100
    /\ height_required = 50
    /\ sample_points \in {3, 5, 9}
    /\ blade_type_idx \in 0..(Len(blade_types) - 1)
    /\ mnh \in {3, 4}
    /\ stations_xy = <<>>
    /\ stations_dist = <<>>
    /\ ds = NoneVal
    /\ gdal_log = <<>>
    /\ idx = 0
    /\ cancelled_at = NoneVal
    /\ xs = <<>>
    /\ ys = <<>>
    /\ heights = <<>>
    /\ results = <<>>
    /\ conflicts = <<>>
    /\ progress = <<>>
    /\ envelope = [kind |-> "unset"]
    /\ outputs = {}
    /\ error = ""

SpecStraight == InitStraight /\ [][Next]_vars

(***************************************************************************)
(* get_dynamic_half_width on its own: the station lists are the paths of   *)
(* three vertices that a spacing of at least their longest segment leaves  *)
(* as they are (one station per vertex), the station is the middle one.    *)
(***************************************************************************)
\* right-angle corners with legs of 10 m and of 500 m, straight and
\* doubled-back triples, and bends of a few degrees and of a fraction of one
WidthPoints ==
    {QgsPointXY(0, 0), QgsPointXY(100, 0), QgsPointXY(0, 100), QgsPointXY(-100, 0),
     QgsPointXY(5000, 0), QgsPointXY(0, 5000), QgsPointXY(-5000, 30), QgsPointXY(60, 80)}

WidthStations ==
    {<<a, b, c>> : a \in WidthPoints, b \in WidthPoints, c \in WidthPoints}

InitWidth ==
    /\ pc = "width"
    /\ stations_xy \in {t \in WidthStations : t[1] # t[2] /\ t[2] # t[3]}
    /\ blade_type_idx \in 0..(Len(blade_types) - 1)
    /\ idx = 1
    /\ points = <<>>
    /\ spacing = 0
    /\ height_required = 0
    /\ sample_points = 0
    /\ mnh = 1
    /\ stations_dist = <<>>
    /\ ds = NoneVal
    /\ gdal_log = <<>>
    /\ cancelled_at = NoneVal
    /\ xs = <<>>
    /\ ys = <<>>
    /\ heights = <<>>
    /\ results = <<>>
    /\ conflicts = <<>>
    /\ progress = <<>>
    /\ envelope = [kind |-> "unset"]
    /\ outputs = {}
    /\ error = ""

\* dynamic_half_width, radius = self.get_dynamic_half_width(idx, stations_xy,
\*     specs['Width'], specs['blade_length'] + 18.0 / 2)
WidthCall ==
    /\ pc = "width"
    /\ \E hw \in {get_dynamic_half_width(idx, stations_xy, specs.Width,
                                         ConvoyLength(specs))} :
          results' = <<[station |-> idx, dynamic_half_width_m |-> hw[1],
                        radius |-> hw[2]]>>
    /\ pc' = "width_done"
    /\ UNCHANGED <<inputs, stations_xy, stations_dist, ds, gdal_log, idx, cancelled_at,
                   xs, ys, heights, conflicts, progress, envelope, outputs, error>>

NextWidth == WidthCall

SpecWidth == InitWidth /\ [][NextWidth]_vars

(***************************************************************************)
(* sample_raster on its own: one coordinate over the rasters whose cells   *)
(* hold the limit values, inside the grid, within a cell of its first      *)
(* column and row, and outside.                                            *)
(***************************************************************************)
InitSample ==
    /\ pc = "sample"
    /\ mnh \in {5, 6, 7}
    /\ xs \in {<<x>> : x \in {-50, 50, 150, 250, 350, 450, 550, 650, 750, 850}}
    /\ ys \in {<<y>> : y \in {50, -50, -150}}
    /\ points = <<>>
    /\ spacing = 0
    /\ height_required = 0
    /\ sample_points = 1
    /\ blade_type_idx = 0
    /\ stations_xy = <<>>
    /\ stations_dist = <<>>
    /\ ds = mnh
    /\ gdal_log = <<"open">>
    /\ idx = 0
    /\ cancelled_at = NoneVal
    /\ heights = <<>>
    /\ results = <<>>
    /\ conflicts = <<>>
    /\ progress = <<>>
    /\ envelope = [kind |-> "unset"]
    /\ outputs = {}
    /\ error = ""

\* heights = self.sample_raster(ds, band, gt, nodata, xs, ys)
SampleCall ==
    /\ pc = "sample"
    /\ heights' = sample_raster(RasterFiles[ds], xs, ys)
    /\ pc' = "sample_done"
    /\ UNCHANGED <<inputs, stations_xy, stations_dist, ds, gdal_log, idx, cancelled_at,
                   xs, ys, results, conflicts, progress, envelope, outputs, error>>

NextSample == SampleCall

SpecSample == InitSample /\ [][NextSample]_vars

(***************************************************************************)
(* Properties.  The sample coordinates and heights of the state are those  *)
(* of the station processed last, whose record is the last of results.     *)
(***************************************************************************)
LastResult == results[Len(results)]

\* the inputs the parameter declarations and a proper line give: a path of
\* at least two points and a positive spacing
ValidRun == Len(points) >= 2 /\ spacing > 0

Defined == {k \in DOMAIN heights : heights[k] # NaN}

\* (x, y) lies outside the extent of the grid of raster r (north-up:
\* gt1 > 0, gt5 < 0): left of the origin or at/after the right edge, above
\* the top edge or at/below the bottom edge
OutsideExtent(r, x, y) ==
    \/ x < r.gt0
    \/ x >= r.gt0 + r.RasterXSize * r.gt1
    \/ y > r.gt3
    \/ y <= r.gt3 + r.RasterYSize * r.gt5

\* C1: every sample coordinate outside the grid extent gets an undefined
\* height, also when it is less than one cell outside the first column or row.
C1_OutsideIsUndefined ==
    \A k \in DOMAIN heights :
        ValidRun /\ OutsideExtent(RasterFiles[mnh], xs[k], ys[k]) => heights[k] = NaN

RECURSIVE SumDefined(_)
\* the sum of the defined heights among the first k samples
SumDefined(k) ==
    IF k = 0 THEN 0
    ELSE SumDefined(k - 1) + (IF heights[k] # NaN THEN heights[k] ELSE 0)

\* C4: with M the maximum over the defined samples only, clearance_ok holds
\* iff there is no defined sample or M < required; max and mean are taken
\* over the defined samples only and are undefined when there is none.
C4_ClearanceIff ==
    results # <<>> =>
        /\ LastResult.clearance_ok <=>
              (Defined = {} \/ \A k \in Defined : heights[k] < height_required)
        /\ Defined = {} =>
              LastResult.max_height_m = NaN /\ LastResult.mean_height_m = NaN
        /\ Defined # {} =>
              /\ \E k \in Defined : LastResult.max_height_m = heights[k]
              /\ \A k \in Defined : heights[k] <= LastResult.max_height_m
              /\ LastResult.mean_height_m
                    = RoundDiv(SumDefined(Len(heights)), Cardinality(Defined))

C4_Witness ==
    /\ results # <<>>
    /\ Defined # {}
    /\ Defined # DOMAIN heights
    /\ LastResult.max_height_m = height_required
    /\ LastResult.mean_height_m < LastResult.max_height_m
    /\ ~LastResult.clearance_ok

\* the Python exceptions of the stages after the loop
StageErrors ==
    {"ValueError: max() arg is an empty sequence",
     "IndexError: list index out of range"}

\* C5: whatever the station k at which the cancellation is seen
\* (0 <= k <= station count), the loop stops with exactly the k results
\* computed so far and the envelope, station-table, CSV and report stages
\* then run without raising an error.
C5_CancelledRunCompletes ==
    (ValidRun /\ cancelled_at # NoneVal) =>
        /\ Len(results) = cancelled_at
        /\ error \notin StageErrors

\* C6: with a path of fewer than 2 points (empty, or a single point)
\* densify_line fails and no station list is returned.
C6_ShortPathFails ==
    Len(points) < 2 => stations_xy = <<>>

\* C7: with a spacing <= 0 and a path of at least 2 points the run aborts
\* instead of returning a station list; a negative spacing never gives a
\* densification holding only the start point.
C7_BadSpacingFails ==
    (spacing <= 0 /\ Len(points) >= 2) => stations_xy = <<>>

(***************************************************************************)
(* Densification, restated from the inputs                                 *)
(***************************************************************************)
SegLen(i) == Distance(points[i], points[i + 1])

\* ceil(len / sp) for sp > 0: the least n with n * sp >= len
CeilQuot(len, sp) == CHOOSE n \in 0..len : n * sp >= len /\ (n > 0 => (n - 1) * sp < len)

RECURSIVE StationsBefore(_)
\* the stations added by the segments before segment i
StationsBefore(i) ==
    IF i = 1 THEN 0 ELSE StationsBefore(i - 1) + CeilQuot(SegLen(i - 1), spacing)

\* C8: with spacing > 0, segment i of length L > 0 adds ceil(L / spacing)
\* stations, consecutive distances inside it differ by L / ceil(L / spacing),
\* which is at most the spacing, and there are 1 + sum of ceil(L / spacing)
\* stations in all.
C8_SegmentSubdivision ==
    (spacing > 0 /\ stations_xy # <<>>) =>
        /\ Len(stations_xy) = 1 + StationsBefore(Len(points))
        /\ Len(stations_dist) = Len(stations_xy)
        /\ \A i \in 1..(Len(points) - 1) :
              LET len == SegLen(i)
                  n   == CeilQuot(len, spacing)
                  b   == StationsBefore(i)
              IN  /\ len > 0 => n >= 1
                  /\ \A j \in 1..n :
                        /\ stations_dist[b + j + 1] - stations_dist[b + j] = RoundDiv(len, n)
                        /\ stations_dist[b + j + 1] - stations_dist[b + j] <= spacing
                  /\ n >= 1 => stations_xy[b + n + 1] = points[i + 1]

\* two segments whose lengths (30 m, 40 m) are no multiple of the spacing (25 m)
C8_Witness ==
    /\ spacing = 250
    /\ Len(points) = 3
    /\ Len(stations_xy) = 5
    /\ stations_dist = <<0, 150, 300, 500, 700>>

\* C9: for a path of at least 2 points (repeated vertices included) and a
\* spacing > 0, densify_line returns stations and distances of equal
\* length, starting at the first point with distance 0, the distances
\* strictly increasing.
C9_DistancesIncrease ==
    (Len(points) >= 2 /\ spacing > 0 /\ progress # <<>>) =>
        /\ stations_xy # <<>>
        /\ Len(stations_xy) = Len(stations_dist)
        /\ stations_xy[1] = points[1]
        /\ stations_dist[1] = 0
        /\ \A k \in 1..(Len(stations_dist) - 1) : stations_dist[k] < stations_dist[k + 1]

\* a path that repeats its first vertex
C9_Witness ==
    /\ Len(points) = 3
    /\ points[1] = points[2]
    /\ points[2] # points[3]
    /\ spacing > 0
    /\ Len(stations_xy) >= 3
    /\ Len(stations_dist) = Len(stations_xy)

\* C10: get_dynamic_half_width returns base_width / 2 + sweep, the sweep
\* being 0 for a radius that is infinite or above 500 m, half the convoy
\* length for a radius below 10 m, and convoy_length^2 / (2 radius) from
\* 10 m to 500 m inclusive; the half width is never below base_width / 2.
C10_HalfWidth ==
    pc = "width_done" =>
        LET r      == results[1]
            half   == RoundDiv(specs.Width, 2)
            convoy == ConvoyLength(specs)
            sweep  == IF r.radius = Inf \/ r.radius > 5000 THEN 0
                      ELSE IF r.radius < 100 THEN RoundDiv(convoy, 2)
                      ELSE RoundDiv(convoy * convoy, 2 * r.radius)
        IN  /\ r.radius >= 0
            /\ r.dynamic_half_width_m = half + sweep
            /\ r.dynamic_half_width_m >= half

\* the corner with legs of 500 m: the radius is exactly 500 m, the upper
\* bound of the middle case, and the sweep is convoy_length^2 / 1000 m
C10_Witness ==
    /\ pc = "width_done"
    /\ results[1].radius = 5000
    /\ blade_type_idx = 0
    /\ results[1].dynamic_half_width_m = 25 + 48

\* C11: the sweep that get_dynamic_half_width adds to base_width / 2 never
\* exceeds half the convoy length, whatever the radius and for each of the
\* four blade types.
C11_SweepCapped ==
    pc = "width_done" =>
        results[1].dynamic_half_width_m - RoundDiv(specs.Width, 2)
            <= RoundDiv(ConvoyLength(specs), 2)

\* C12: when the disk union of create_dynamic_envelope is unavailable or
\* fails, the results list being shorter than the stations list or empty
\* included, the envelope is the path polyline buffered by the largest
\* dynamic half width of the results, and no error leaves the function.
C12_FallbackBuffers ==
    ValidRun =>
        /\ error # "ValueError: max() arg is an empty sequence"
        /\ (pc \in {"layers", "export", "done"} /\ Len(results) < Len(stations_xy))
              => envelope.kind = "buffer"
        /\ envelope.kind = "buffer" =>
              /\ envelope.line = stations_xy
              /\ \E k \in DOMAIN results :
                    envelope.max_width = results[k].dynamic_half_width_m
              /\ \A k \in DOMAIN results :
                    results[k].dynamic_half_width_m <= envelope.max_width

\* C13: the raster is opened once, before the first station, and released
\* once, after the loop has ended (run to its end or cancelled); every read
\* lies between the open and the release, and no station opens it again.
C13_RasterOpenedOnce ==
    LET n == Len(gdal_log)
    IN  /\ \A i \in 1..n : gdal_log[i] = "open" <=> i = 1
        /\ \A i \in 1..n : gdal_log[i] = "close" => (i = n /\ i >= 2)
        /\ ds # NoneVal <=> (n >= 1 /\ gdal_log[n] # "close")
        /\ pc \in {"validate", "densify", "open"} => n = 0
        /\ pc \in {"loop", "close"} => (n = 1 + Len(results) /\ ds = mnh)
        /\ pc \in {"envelope", "layers", "export", "done"} =>
              (n = Len(results) + 2 /\ gdal_log[n] = "close" /\ ds = NoneVal)

\* a run cancelled after at least one station and carried to its end
C13_Witness ==
    /\ pc = "done"
    /\ cancelled_at # NoneVal
    /\ cancelled_at >= 1
    /\ Len(gdal_log) = cancelled_at + 2
    /\ gdal_log[1] = "open"
    /\ gdal_log[2] = "read"
    /\ gdal_log[Len(gdal_log)] = "close"
    /\ ds = NoneVal

\* C14: a station all of whose samples are undefined (out of the grid,
\* no-data or out of range) has clearance_ok true, max and mean undefined,
\* and adds no record to conflicts.
C14_UndefinedIsClear ==
    (results # <<>> /\ Defined = {}) =>
        /\ LastResult.clearance_ok
        /\ LastResult.max_height_m = NaN
        /\ LastResult.mean_height_m = NaN
        /\ \A i \in DOMAIN conflicts : conflicts[i].station # LastResult.station

\* a station inside the grid whose three samples fall on no-data or
\* out-of-range cells, in a run that already has an obstacle
C14_Witness ==
    /\ ValidRun
    /\ results # <<>>
    /\ heights # <<>>
    /\ Defined = {}
    /\ \A k \in DOMAIN heights : ~OutsideExtent(RasterFiles[mnh], xs[k], ys[k])
    /\ conflicts # <<>>
    /\ LastResult.clearance_ok

\* C15: the run on the straight 100 m path (spacing 10 m, required height
\* 5 m) over the raster that is 0 except for one 10 m cell under station 5
\* ends with exactly one record in conflicts, for station 5 with
\* exceedance 5 m, and clearance_ok true for every other station.
C15_OneObstacle ==
    (pc = "done" /\ mnh = 4 /\ cancelled_at = NoneVal) =>
        /\ Len(results) = 11
        /\ Len(conflicts) = 1
        /\ conflicts[1].station = 5
        /\ conflicts[1].max_height_m = 100
        /\ conflicts[1].exceedance_m = 50
        /\ \A k \in DOMAIN results : results[k].clearance_ok <=> results[k].station # 5

C15_Witness ==
    /\ pc = "done"
    /\ mnh = 4
    /\ cancelled_at = NoneVal
    /\ Len(conflicts) = 1
    /\ conflicts[1].x = 500
    /\ ~results[6].clearance_ok
    /\ results[5].clearance_ok
    /\ results[7].clearance_ok

\* C16: the run on the straight 100 m path (spacing 10 m, base width 5 m,
\* required height 5 m) over the raster that is 0 everywhere ends with 11
\* results, each with half width 2.5 m and clearance_ok true, and with no
\* record in conflicts.
C16_ClearStraightPath ==
    (pc = "done" /\ mnh = 3 /\ cancelled_at = NoneVal) =>
        /\ Len(results) = 11
        /\ Len(stations_xy) = 11
        /\ \A k \in DOMAIN results :
              /\ results[k].station = k - 1
              /\ results[k].dynamic_half_width_m = 25
              /\ results[k].max_height_m = 0
              /\ results[k].clearance_ok
        /\ conflicts = <<>>

C16_Witness ==
    /\ pc = "done"
    /\ mnh = 3
    /\ cancelled_at = NoneVal
    /\ Len(results) = 11
    /\ results[11].x = 1000
    /\ results[11].distance_m = 1000
    /\ results[11].dynamic_half_width_m = 25
    /\ conflicts = <<>>
    /\ outputs = {"envelope", "stations", "csv", "report"}

\* C17: calculate_curve_radius returns an infinite radius for every interior
\* station that is collinear with its two anchors, also when the path
\* doubles back along the same line.
C17_CollinearIsStraight ==
    pc = "width_done" =>
        LET before == stations_xy[idx]
            here   == stations_xy[idx + 1]
            after  == stations_xy[idx + 2]
            cross  == (here.x - before.x) * (after.y - here.y)
                         - (here.y - before.y) * (after.x - here.x)
        IN  cross = 0 => results[1].radius = Inf

\* C18: after k iterations of the loop results has k records, record j
\* carrying station index j; conflicts lists, by strictly increasing
\* station index, exactly the stations whose clearance_ok is false and
\* whose max height is defined, each with the station index, distance,
\* position and max height of its result.
C18_ResultsAndConflicts ==
    /\ Len(results) = idx
    /\ \A j \in DOMAIN results : results[j].station = j - 1
    /\ \A i \in DOMAIN conflicts :
          /\ conflicts[i].station + 1 \in DOMAIN results
          /\ i > 1 => conflicts[i - 1].station < conflicts[i].station
          /\ LET r == results[conflicts[i].station + 1]
             IN  /\ ~r.clearance_ok
                 /\ r.max_height_m # NaN
                 /\ conflicts[i].distance_m = r.distance_m
                 /\ conflicts[i].x = r.x
                 /\ conflicts[i].y = r.y
                 /\ conflicts[i].max_height_m = r.max_height_m
    /\ \A j \in DOMAIN results :
          (~results[j].clearance_ok /\ results[j].max_height_m # NaN)
              => \E i \in DOMAIN conflicts : conflicts[i].station = results[j].station

\* three or more stations done, two of them obstacles with a clear station
\* before the second
C18_Witness ==
    /\ ValidRun
    /\ Len(results) >= 3
    /\ Len(conflicts) = 2
    /\ conflicts[2].station = idx - 1
    /\ \E j \in DOMAIN results :
          /\ results[j].station < conflicts[2].station
          /\ results[j].clearance_ok

\* the progress values reported up to the end of k iterations of the loop
StationProgress(k) ==
    <<10, 20, 30>> \o [j \in 1..k |-> 30 + (50 * (j - 1)) \div Len(stations_xy)]

\* C19: the progress values never decrease: 10, 20, 30, then one value in
\* [30, 80) per processed station, then 80, 90 and at last 100, also in a
\* run whose loop was cancelled early.
C19_ProgressSequence ==
    /\ \A i \in 1..(Len(progress) - 1) : progress[i] <= progress[i + 1]
    /\ \A i \in 4..(3 + Len(results)) : progress[i] >= 30 /\ progress[i] < 80
    /\ pc \in {"loop", "close"} => progress = StationProgress(Len(results))
    /\ pc \in {"envelope", "layers", "export"}
          => progress = StationProgress(Len(results)) \o <<80>>
    /\ pc = "done" => progress = StationProgress(Len(results)) \o <<80, 90, 100>>
    /\ (ValidRun /\ cancelled_at # NoneVal /\ pc = "error") => error \notin StageErrors

\* C20: for a coordinate that maps to a cell of the grid, sample_raster
\* gives an undefined height iff the cell value is the declared no-data
\* value or is below -100 m or above 200 m, and the cell value itself
\* otherwise; -100 m and 200 m are kept.
C20_InGridValue ==
    pc = "sample_done" =>
        \A k \in DOMAIN heights :
            LET r  == RasterFiles[mnh]
                px == Trunc(xs[k] - r.gt0, r.gt1)
                py == Trunc(ys[k] - r.gt3, r.gt5)
            IN  (px \in 0..(r.RasterXSize - 1) /\ py \in 0..(r.RasterYSize - 1)) =>
                    LET val == r.band[py][px]
                    IN  /\ heights[k] = NaN <=>
                              \/ (r.nodata # NoneVal /\ val = r.nodata)
                              \/ val < -1000
                              \/ val > 2000
                        /\ heights[k] # NaN => heights[k] = val
                        /\ val \in {-1000, 2000} => heights[k] = val

\* the cell at 200 m read over the raster whose no-data value is 0
C20_Witness ==
    /\ pc = "sample_done"
    /\ mnh = 6
    /\ xs = <<150>>
    /\ ys = <<-50>>
    /\ heights = <<2000>>

=============================================================================
